---- MODULE Spec2Model ----
(***************************************************************************)
(* Model of notebooks/analysis.ipynb: the review collector (listing-page   *)
(* loop, scrape_reviews_for_movie, the collection loop), the cleaning cell *)
(* (drop_duplicates and the blank-text filter) and preprocess_text.        *)
(*                                                                         *)
(* A Python str is a sequence of one-character strings.  TLA+ strings are  *)
(* ASCII, so Cyrillic letters are written by Latin transliterations: "o",  *)
(* "n", "a" stand for the letters of the stop words "on", "no", "na",      *)
(* "ona" of stopwords.words("russian").                                    *)
(***************************************************************************)
EXTENDS Integers, Sequences, FiniteSets, TLC

VARIABLES
    \* ---- cleaning cell ----
    cpc,          \* position in the cleaning cell
    raw,          \* the table as loaded by read_csv (kept for reference)
    df,           \* the DataFrame df of the cleaning cell
    \* ---- preprocess_text ----
    tpc,          \* number of applications of preprocess_text so far
    text,         \* the cell of review_text that is preprocessed
    outs,         \* results of the successive applications
    \* ---- block loop of scrape_reviews_for_movie on one page ----
    blocks,       \* the review blocks of the page (soup.find_all result)
    parsed,       \* outcome of the block loop: [done, exc, rows]
    \* ---- collector ----
    kpc,          \* position in the collector cells
    lpage,        \* page of the listing loop
    movie_urls,   \* movie_urls
    midx,         \* idx of the collection loop
    page_num,     \* page_num of scrape_reviews_for_movie
    reviews,      \* reviews of scrape_reviews_for_movie
    all_reviews,  \* all_reviews
    csv,          \* rows written to the raw CSV, Unwritten before
    attempts,     \* history: the URLs scrape_reviews_for_movie was called with
    served,       \* history: the review pages requested in the current call
    calls,        \* history: outcome, result and pages of every finished call
    lastEvent,    \* history: "none", "request" or "sleep", whichever came last
    reqParity     \* history: number of HTTP requests so far, modulo 2

cleanVars   == <<cpc, raw, df>>
tokVars     == <<tpc, text, outs>>
parseVars   == <<blocks, parsed>>
collectVars == <<kpc, lpage, movie_urls, midx, page_num, reviews, all_reviews, csv,
                 attempts, served, calls, lastEvent, reqParity>>
vars        == <<cleanVars, tokVars, parseVars, collectVars>>

CleanIdle == cpc = "idle" /\ raw = <<>> /\ df = <<>>
TokIdle   == tpc = 0 /\ text = <<>> /\ outs = <<>>
NotParsed == [done |-> FALSE, exc |-> FALSE, rows |-> <<>>]
ParseIdle == blocks = <<>> /\ parsed = NotParsed
CollectIdle ==
    /\ kpc = "idle" /\ lpage = 0 /\ movie_urls = <<>> /\ midx = 0 /\ page_num = 0
    /\ reviews = <<>> /\ all_reviews = <<>> /\ csv = <<>> /\ attempts = <<>>
    /\ served = <<>> /\ calls = <<>> /\ lastEvent = "none" /\ reqParity = 0

(***************************************************************************)
(* Characters and their classes (Python str.lower, re \w, \s, \d).         *)
(***************************************************************************)
LowerLetters ==
    {"o", "n", "a", "g", "c", "t", "m", "e", "i", "l", "w", "h", "y", "j", "f"}
UpperLetters == {"O"}
Digits       == {"0", "1", "2", "3", "4", "5", "6", "7", "8", "9"}
Spaces       == {" "}
Underscore   == "_"
Punct        == {"!", "/", ".", ",", "-", "+"}

\* the missing value (NaN / None) of a table cell; not a str
NaN == <<"<NaN>">>

\* str.lower() on one character
LowerChar(c) == IF c = "O" THEN "o" ELSE c

\* re \w with re.U: letters, digits and the underscore
IsWordChar(c) == c \in LowerLetters \cup UpperLetters \cup Digits \cup {Underscore}

\* re \s, str.isspace
IsSpace(c) == c \in Spaces

\* re \d
IsDigit(c) == c \in Digits

(***************************************************************************)
(* Helpers on sequences.                                                   *)
(***************************************************************************)
MapSeq(s, Op(_)) == [i \in 1..Len(s) |-> Op(s[i])]

RECURSIVE Concat(_)
Concat(ss) == IF ss = <<>> THEN <<>> ELSE Head(ss) \o Concat(Tail(ss))

\* rows of t whose position is in S, in the order of t
RECURSIVE PickFrom(_, _, _)
PickFrom(t, S, i) ==
    IF i > Len(t) THEN <<>>
    ELSE (IF i \in S THEN <<t[i]>> ELSE <<>>) \o PickFrom(t, S, i + 1)

Pick(t, S) == PickFrom(t, S, 1)

(***************************************************************************)
(* The cleaning cell.                                                      *)
(***************************************************************************)
MaxRows == 3

\* values of the review_text column after read_csv; an empty field of the
\* CSV is read as NaN, so no cell is the empty string
CellTexts == { NaN, <<" ">>, <<" ", " ">>, <<"a">>, <<" ", "a">>, <<"n">> }

\* values of the author column after read_csv
CellAuthors == { NaN, <<"o">> }

\* the table of the rows f[1], ..., f[n] (review_text, author) with the
\* RangeIndex 0..n-1 that read_csv gives it
TableOf(f) ==
    [i \in DOMAIN f |-> [idx |-> i - 1, review_text |-> f[i][1], author |-> f[i][2]]]

\* the subset ["review_text", "author"] of a row
Key(r) == <<r.review_text, r.author>>

\* faulty variant: keep=False, every member of a duplicate group is dropped
DropDuplicatesKeepNone(t) ==
    Pick(t, { i \in 1..Len(t) : \A j \in 1..Len(t) : j # i => Key(t[j]) # Key(t[i]) })

\* faulty variant: keep="last"
DropDuplicatesKeepLast(t) ==
    Pick(t, { i \in 1..Len(t) : \A j \in (i + 1)..Len(t) : Key(t[j]) # Key(t[i]) })

\* df.drop_duplicates(subset=["review_text", "author"]): keep="first", NaN equals NaN
DropDuplicates(t) ==
    Pick(t, { i \in 1..Len(t) : \A j \in 1..(i - 1) : Key(t[j]) # Key(t[i]) })

\* str.lstrip / str.rstrip / str.strip
RECURSIVE LStrip(_)
LStrip(s) == IF s # <<>> /\ IsSpace(Head(s)) THEN LStrip(Tail(s)) ELSE s

RECURSIVE RStrip(_)
RStrip(s) ==
    IF s # <<>> /\ IsSpace(s[Len(s)]) THEN RStrip(SubSeq(s, 1, Len(s) - 1)) ELSE s

\* Series.str.strip(): a missing cell stays missing
StrStrip(x) == IF x = NaN THEN NaN ELSE RStrip(LStrip(x))

NotNa(x) == x # NaN

\* faulty variant: the filter without notna(); NaN != "" is True elementwise
KeepRowNoNotna(r) == StrStrip(r.review_text) # <<>>

\* the row mask df["review_text"].notna() & (df["review_text"].str.strip() != "")
KeepRow(r) == NotNa(r.review_text) /\ StrStrip(r.review_text) # <<>>

FilterBlank(t) == SelectSeq(t, KeepRow)

\* df["review_text"].str: read_csv gives a column without any string the
\* dtype float64, and the .str accessor of such a column raises AttributeError
StrAccessorOk(t) == Len(t) = 0 \/ \E i \in 1..Len(t) : t[i].review_text # NaN

InitClean ==
    /\ cpc = "start"
    /\ raw = <<>>
    /\ df = <<>>
    /\ TokIdle /\ ParseIdle /\ CollectIdle

\* lines 231-232: df is the table read from the raw CSV
ReadCsv ==
    /\ cpc = "start"
    /\ \E n \in 0..MaxRows :
          \E f \in [1..n -> CellTexts \X CellAuthors] :
              /\ raw' = TableOf(f)
              /\ df' = TableOf(f)
    /\ cpc' = "loaded"
    /\ UNCHANGED <<tokVars, parseVars, collectVars>>

\* line 235
DropDuplicatesStep ==
    /\ cpc = "loaded"
    /\ df' = DropDuplicates(df)
    /\ cpc' = "deduped"
    /\ UNCHANGED <<raw, tokVars, parseVars, collectVars>>

\* line 238
FilterBlankStep ==
    /\ cpc = "deduped"
    /\ IF StrAccessorOk(df)
       THEN df' = FilterBlank(df) /\ cpc' = "cleaned"
       ELSE df' = df /\ cpc' = "raised"
    /\ UNCHANGED <<raw, tokVars, parseVars, collectVars>>

NextClean == ReadCsv \/ DropDuplicatesStep \/ FilterBlankStep

SpecClean == InitClean /\ [][NextClean]_vars

(***************************************************************************)
(* Claims about the cleaning cell.                                         *)
(***************************************************************************)
\* a review_text that is missing, empty or made only of whitespace
BlankText(x) == x = NaN \/ \A i \in 1..Len(x) : x[i] \in Spaces

\* number of rows of table t with the (review_text, author) pair k
CountKey(t, k) == Cardinality({ i \in 1..Len(t) : Key(t[i]) = k })

\* pairs of distinct raw rows with identical (review_text, author)
DupPairs ==
    { p \in (1..Len(raw)) \X (1..Len(raw)) : p[1] # p[2] /\ Key(raw[p[1]]) = Key(raw[p[2]]) }

\* C1 as stated: for every two raw rows with identical (review_text, author)
\* the cleaned table retains exactly one row with that pair.
C1_DedupExactlyOne ==
    cpc = "cleaned" => \A p \in DupPairs : CountKey(df, Key(raw[p[1]])) = 1

\* C1 amended: for every two raw rows with identical (review_text, author)
\* the cleaned table retains exactly one row with that pair when its
\* review_text is non-blank, and no row with that pair when it is blank.
C1_DedupAmended ==
    cpc = "cleaned" =>
        \A p \in DupPairs :
            CountKey(df, Key(raw[p[1]])) =
                (IF BlankText(raw[p[1]].review_text) THEN 0 ELSE 1)

C1_Witness ==
    /\ cpc = "cleaned"
    /\ \E p \in DupPairs : ~BlankText(raw[p[1]].review_text)
    /\ \E i \in 1..Len(raw) : BlankText(raw[i].review_text)
    /\ Len(df) = 1

\* C2: no row of the cleaned table has a review_text that is missing, empty
\* or made only of whitespace.
C2_NoBlankText ==
    cpc = "cleaned" => \A k \in 1..Len(df) : ~BlankText(df[k].review_text)

C2_Witness ==
    /\ cpc = "cleaned"
    /\ \E i \in 1..Len(raw) : raw[i].review_text = NaN
    /\ \E i \in 1..Len(raw) : raw[i].review_text = <<" ", " ">>
    /\ Len(df) = 1

\* the fixture of section 8: one valid row, one duplicate of it, one blank row
Fixture ==
    << [idx |-> 0, review_text |-> <<"a">>, author |-> <<"o">>],
       [idx |-> 1, review_text |-> <<"a">>, author |-> <<"o">>],
       [idx |-> 2, review_text |-> <<" ">>, author |-> <<"o">>] >>

\* C3: the cleaned table has exactly one row per distinct (review_text,
\* author) pair whose review_text is non-blank, that row is the first
\* occurrence of the pair in raw order, it has no other rows, and the
\* 3-row fixture yields exactly 1 row.
C3_CleanerReference ==
    cpc = "cleaned" =>
        /\ \A i \in 1..Len(raw) :
              ~BlankText(raw[i].review_text) => CountKey(df, Key(raw[i])) = 1
        /\ \A k \in 1..Len(df) :
              \E i \in 1..Len(raw) :
                  /\ df[k] = raw[i]
                  /\ ~BlankText(raw[i].review_text)
                  /\ \A j \in 1..(i - 1) : Key(raw[j]) # Key(raw[i])
        /\ (raw = Fixture => Len(df) = 1)

C3_Witness == cpc = "cleaned" /\ raw = Fixture /\ df = <<Fixture[1]>>

(***************************************************************************)
(* preprocess_text.                                                        *)
(***************************************************************************)
MaxLen   == 5
MaxWords == 2

\* step 1: text.lower()
Lower(s) == MapSeq(s, LowerChar)

\* step 2: punct_pattern.sub(" ", text) with punct_pattern = [^\w\s]
PunctToSpace(c) == IF ~IsWordChar(c) /\ ~IsSpace(c) THEN " " ELSE c

SubPunct(s) == MapSeq(s, PunctToSpace)

\* step 3: re.sub(r"\d+", " ", text): every maximal run of digits becomes one space
RECURSIVE SkipDigits(_)
SkipDigits(s) == IF s # <<>> /\ IsDigit(Head(s)) THEN SkipDigits(Tail(s)) ELSE s

RECURSIVE SubDigits(_)
SubDigits(s) ==
    IF s = <<>> THEN <<>>
    ELSE IF IsDigit(Head(s)) THEN <<" ">> \o SubDigits(SkipDigits(Tail(s)))
    ELSE <<Head(s)>> \o SubDigits(Tail(s))

\* str.split(): the maximal runs of non-whitespace characters
RECURSIVE TakeWord(_)
TakeWord(s) ==
    IF s = <<>> \/ IsSpace(Head(s)) THEN <<>> ELSE <<Head(s)>> \o TakeWord(Tail(s))

RECURSIVE Split(_)
Split(s) ==
    IF s = <<>> THEN <<>>
    ELSE IF IsSpace(Head(s)) THEN Split(Tail(s))
    ELSE LET w == TakeWord(s)
         IN  <<w>> \o Split(SubSeq(s, Len(w) + 1, Len(s)))

\* the contractions word_tokenize splits in two (those spelled without an
\* apostrophe): cannot, gimme, gonna, gotta, lemme, wanna
Contractions ==
    { << <<"c", "a", "n">>, <<"n", "o", "t">> >>,
      << <<"g", "i", "m">>, <<"m", "e">> >>,
      << <<"g", "o", "n">>, <<"n", "a">> >>,
      << <<"g", "o", "t">>, <<"t", "a">> >>,
      << <<"l", "e", "m">>, <<"m", "e">> >>,
      << <<"w", "a", "n">>, <<"n", "a">> >> }

SplitContraction(tok) ==
    IF \E c \in Contractions : tok = c[1] \o c[2]
    THEN CHOOSE c \in Contractions : tok = c[1] \o c[2]
    ELSE <<tok>>

\* step 4: word_tokenize(text, language="russian") on a text of word
\* characters and whitespace: split at whitespace, then split contractions
word_tokenize(s) == Concat(MapSeq(Split(s), SplitContraction))

\* russian_stop: the stop words spelled with the letters o, n, a
russian_stop == { <<"o", "n">>, <<"n", "o">>, <<"n", "a">>, <<"o", "n", "a">> }

\* faulty variant: the length test len(tok) > 2 left out
TokenKeptAnyLength(tok) == tok \notin russian_stop

\* step 5: tok not in russian_stop and len(tok) > 2
TokenKept(tok) == tok \notin russian_stop /\ Len(tok) > 2

\* " ".join(tokens)
RECURSIVE Join(_)
Join(toks) ==
    IF toks = <<>> THEN <<>>
    ELSE IF Len(toks) = 1 THEN toks[1]
    ELSE toks[1] \o <<" ">> \o Join(Tail(toks))

\* faulty variant: the stop-word filter applied before the case fold
preprocess_text_FilterFirst(t) ==
    Lower(Join(SelectSeq(word_tokenize(SubDigits(SubPunct(t))), TokenKept)))

preprocess_text(t) ==
    Join(SelectSeq(word_tokenize(SubDigits(SubPunct(Lower(t)))), TokenKept))

\* Series.fillna("")
FillNa(x) == IF x = NaN THEN <<>> ELSE x

\* inputs: every text of at most MaxLen characters over TokAlphabet, every
\* phrase of at most MaxWords words of Vocabulary, the example of section 8
\* ("Otlichnyj film! 10/10") and the missing cell
TokAlphabet == {"o", "n", "a", "O", "1", "!", "_", " "}


Vocabulary ==
    { <<"g", "o", "n", "n", "a">>, <<"c", "a", "n", "n", "o", "t">>,
      <<"w", "a", "n", "n", "a">>, <<"g", "o", "n">>,
      <<"O", "n", "a">>, <<"o", "n", "a">>, <<"n", "a", "n", "o", "!">>,
      <<"o", "_", "1", "o", "o", "o">> }


ExampleText ==
    << "O", "t", "l", "i", "c", "h", "n", "y", "j", " ",
       "f", "i", "l", "m", "!", " ", "1", "0", "/", "1", "0" >>

OtherTexts == {ExampleText, NaN}

InitTok ==
    /\ tpc = 0
    /\ text = <<>>
    /\ outs = <<>>
    /\ CleanIdle /\ ParseIdle /\ CollectIdle

\* line 281 for one cell of review_text, then preprocess_text run again on
\* its own output
ApplyPreprocess ==
    /\ tpc = 0
    /\ \/ \E n \in 0..MaxLen : \E t \in [1..n -> TokAlphabet] :
              text' = t /\ outs' = <<preprocess_text(FillNa(t))>>
       \/ \E n \in 0..MaxWords : \E f \in [1..n -> Vocabulary] :
              text' = Join(f) /\ outs' = <<preprocess_text(FillNa(Join(f)))>>
       \/ \E t \in OtherTexts :
              text' = t /\ outs' = <<preprocess_text(FillNa(t))>>
    /\ tpc' = 1
    /\ UNCHANGED <<cleanVars, parseVars, collectVars>>

ReapplyPreprocess ==
    /\ tpc = 1
    /\ outs' = Append(outs, preprocess_text(outs[1]))
    /\ tpc' = 2
    /\ UNCHANGED <<text, cleanVars, parseVars, collectVars>>

NextTok == ApplyPreprocess \/ ReapplyPreprocess

SpecTok == InitTok /\ [][NextTok]_vars

(***************************************************************************)
(* Claims about preprocess_text.                                           *)
(***************************************************************************)
\* C4: preprocess_text(preprocess_text(t)) equals preprocess_text(t).
C4_Idempotent == tpc = 2 => outs[2] = outs[1]

C4_Witness ==
    /\ tpc = 2
    /\ text = <<"O", "n", "a", " ", "g", "o", "n", "n", "a">>
    /\ outs = << <<"g", "o", "n">>, <<"g", "o", "n">> >>

\* the maximal runs of non-whitespace characters of s, as index pairs
TokenSpans(s) ==
    { p \in (1..Len(s)) \X (1..Len(s)) :
        /\ p[1] <= p[2]
        /\ \A k \in p[1]..p[2] : s[k] \notin Spaces
        /\ (p[1] = 1 \/ s[p[1] - 1] \in Spaces)
        /\ (p[2] = Len(s) \/ s[p[2] + 1] \in Spaces) }

\* C5: every whitespace-separated token of clean_text has length at least
\* 3, and for "Otlichnyj film! 10/10" the result is "otlichnyj film".
C5_TokenLength ==
    tpc >= 1 =>
        /\ \A p \in TokenSpans(outs[1]) : p[2] - p[1] + 1 >= 3
        /\ text = ExampleText =>
              outs[1] = << "o", "t", "l", "i", "c", "h", "n", "y", "j", " ",
                           "f", "i", "l", "m" >>

C5_Witness ==
    /\ tpc = 1
    /\ text = <<"n", "a", "n", "o", "!", " ", "g", "o", "n", "n", "a">>
    /\ outs[1] = <<"n", "a", "n", "o", " ", "g", "o", "n">>

\* C7: the result of preprocess_text has no uppercase letter, no
\* punctuation character (anything that is not a letter, a digit or
\* whitespace, the underscore included) and no digit.
C7_NormalForm ==
    tpc >= 1 =>
        \A i \in 1..Len(outs[1]) :
            /\ outs[1][i] \notin UpperLetters
            /\ outs[1][i] \in LowerLetters \cup UpperLetters \cup Digits \cup Spaces
            /\ outs[1][i] \notin Digits

(***************************************************************************)
(* The block loop of scrape_reviews_for_movie (lines 160-187).             *)
(***************************************************************************)
MaxPageBlocks == 2

\* Python None as the result of block.find: no such element
None == <<"<None>">>

\* Python None as the value of rating or review_date; a value v is <<v>>
NoneValue == <<>>

\* el.get_text(strip=True) of an element holding one string
GetText(el) == RStrip(LStrip(el))

DigitVal(c) ==
    CASE c = "0" -> 0 [] c = "1" -> 1 [] c = "2" -> 2 [] c = "3" -> 3 [] c = "4" -> 4
      [] c = "5" -> 5 [] c = "6" -> 6 [] c = "7" -> 7 [] c = "8" -> 8 [] c = "9" -> 9

AllDigits(s) == \A i \in 1..Len(s) : IsDigit(s[i])

RECURSIVE NumVal(_)
NumVal(s) ==
    IF s = <<>> THEN 0 ELSE 10 * NumVal(SubSeq(s, 1, Len(s) - 1)) + DigitVal(s[Len(s)])

\* str.split(sep) for a one-character separator
RECURSIVE TakeUntil(_, _)
TakeUntil(s, sep) ==
    IF s = <<>> \/ Head(s) = sep THEN <<>> ELSE <<Head(s)>> \o TakeUntil(Tail(s), sep)

RECURSIVE SplitOn(_, _)
SplitOn(s, sep) ==
    LET w == TakeUntil(s, sep)
    IN  IF Len(w) = Len(s) THEN <<w>>
        ELSE <<w>> \o SplitOn(SubSeq(s, Len(w) + 2, Len(s)), sep)

\* float(s) for decimal literals: an optional sign, digits with at most one
\* point and at least one digit.  The value is sign * mant / 10^scale with
\* the trailing zeros of the fraction dropped; anything else raises ValueError.
RECURSIVE Normalise(_)
Normalise(v) ==
    IF v.scale > 0 /\ v.mant % 10 = 0
    THEN Normalise([v EXCEPT !.mant = v.mant \div 10, !.scale = v.scale - 1])
    ELSE v

float_(s) ==
    LET body   == IF s # <<>> /\ Head(s) \in {"+", "-"} THEN Tail(s) ELSE s
        sign   == IF s # <<>> /\ Head(s) = "-" THEN -1 ELSE 1
        parts  == SplitOn(body, ".")
        digits == Concat(parts)
    IN  IF Len(parts) <= 2 /\ digits # <<>> /\ AllDigits(digits)
        THEN [exc |-> FALSE,
              val |-> << Normalise([sign |-> sign, mant |-> NumVal(digits),
                                    scale |-> IF Len(parts) = 2 THEN Len(parts[2]) ELSE 0]) >>]
        ELSE [exc |-> TRUE, val |-> NoneValue]

Leap(y) == (y % 4 = 0 /\ y % 100 # 0) \/ y % 400 = 0

DaysInMonth(y, m) ==
    IF m = 2 THEN (IF Leap(y) THEN 29 ELSE 28)
    ELSE IF m \in {4, 6, 9, 11} THEN 30 ELSE 31

\* datetime.strptime(s, "%d.%m.%Y"): day and month of one or two digits,
\* a year of four digits, a date that exists; anything else raises ValueError
strptime(s) ==
    LET parts == SplitOn(s, ".")
    IN  IF /\ Len(parts) = 3
           /\ \A i \in 1..3 : AllDigits(parts[i])
           /\ Len(parts[1]) \in {1, 2} /\ Len(parts[2]) \in {1, 2} /\ Len(parts[3]) = 4
           /\ NumVal(parts[3]) >= 1
           /\ NumVal(parts[2]) \in 1..12
           /\ NumVal(parts[1]) \in 1..DaysInMonth(NumVal(parts[3]), NumVal(parts[2]))
        THEN [exc |-> FALSE,
              val |-> << [year |-> NumVal(parts[3]), month |-> NumVal(parts[2]),
                          day |-> NumVal(parts[1])] >>]
        ELSE [exc |-> TRUE, val |-> NoneValue]

\* line 163 and line 179
TextOf(el) == IF el # None THEN GetText(el) ELSE <<>>

\* faulty variant: the float() call outside of any try block
RatingOfUncaught(block) ==
    IF block.rating_el # None THEN float_(GetText(block.rating_el))
    ELSE [exc |-> FALSE, val |-> NoneValue]

\* lines 165-169: try: float(...) if rating_el else None / except: None
RatingOf(block) ==
    LET r == IF block.rating_el # None THEN float_(GetText(block.rating_el))
             ELSE [exc |-> FALSE, val |-> NoneValue]
    IN  IF r.exc THEN [exc |-> FALSE, val |-> NoneValue] ELSE r

\* lines 171-176: date_str, then try: strptime / except: None
DateOf(block) ==
    LET date_str == IF block.date_el # None THEN GetText(block.date_el) ELSE <<>>
        r        == strptime(date_str)
    IN  IF r.exc THEN [exc |-> FALSE, val |-> NoneValue] ELSE r

\* one pass of the loop body, lines 161-187: the row appended, or an exception
ParseBlock(movie_id, block) ==
    LET rating      == RatingOf(block)
        review_date == DateOf(block)
    IN  [exc |-> rating.exc \/ review_date.exc,
         row |-> [movie_id    |-> movie_id,
                  review_text |-> TextOf(block.text_el),
                  rating      |-> rating.val,
                  review_date |-> review_date.val,
                  author      |-> TextOf(block.author_el)]]

\* for block in review_blocks: ... reviews.append(...), from the list acc
RECURSIVE BlockLoop(_, _, _)
BlockLoop(movie_id, bs, acc) ==
    IF bs = <<>> THEN [done |-> TRUE, exc |-> FALSE, rows |-> acc]
    ELSE LET r == ParseBlock(movie_id, Head(bs))
         IN  IF r.exc THEN [done |-> TRUE, exc |-> TRUE, rows |-> acc]
             ELSE BlockLoop(movie_id, Tail(bs), Append(acc, r.row))

\* contents of the four elements of a review block
TextEls   == { None, <<" ", "a", " ">> }
RatingEls == { None, <<" ", "7", ".", "5", "0">>, <<"8", ",", "5">>, <<>> }
DateEls   == { None,
               <<"0", "5", ".", "0", "3", ".", "2", "0", "2", "3">>,
               <<"3", "1", ".", "0", "2", ".", "2", "0", "2", "3">>,
               <<"2", "0", "2", "3", "-", "0", "3", "-", "0", "5">> }
AuthorEls == { None, <<"o">> }

BlockOf(q) == [text_el |-> q[1], rating_el |-> q[2], date_el |-> q[3], author_el |-> q[4]]

InitParse ==
    /\ blocks = <<>>
    /\ parsed = NotParsed
    /\ CleanIdle /\ TokIdle /\ CollectIdle

\* lines 160-187 on one non-empty page of the movie with movie_id "1"
ParsePage ==
    /\ ~parsed.done
    /\ \E n \in 1..MaxPageBlocks :
          \E f \in [1..n -> TextEls \X RatingEls \X DateEls \X AuthorEls] :
              LET bs == [i \in 1..n |-> BlockOf(f[i])]
              IN  /\ blocks' = bs
                  /\ parsed' = BlockLoop(<<"1">>, bs, <<>>)
    /\ UNCHANGED <<cleanVars, tokVars, collectVars>>

NextParse == ParsePage

SpecParse == InitParse /\ [][NextParse]_vars

(***************************************************************************)
(* Claims about the block loop.                                            *)
(***************************************************************************)
\* the rating and date texts of the model that are well-formed, with the
\* values they denote (7.50 is 75/10; 05.03.2023 is the 5th of March 2023)
ExpectedRating(el) ==
    IF el = <<" ", "7", ".", "5", "0">> THEN << [sign |-> 1, mant |-> 75, scale |-> 1] >>
    ELSE <<>>

ExpectedDate(el) ==
    IF el = <<"0", "5", ".", "0", "3", ".", "2", "0", "2", "3">>
    THEN << [year |-> 2023, month |-> 3, day |-> 5] >>
    ELSE <<>>

ExpectedText(el) == IF el = None THEN <<>> ELSE <<"a">>

\* C10: every review block of a non-empty page gives exactly one row; an
\* absent or unparseable rating or date makes that field None, the other
\* fields are what the block holds, and no exception leaves the loop.
C10_FieldDegradation ==
    parsed.done =>
        /\ ~parsed.exc
        /\ Len(parsed.rows) = Len(blocks)
        /\ \A k \in 1..Len(blocks) :
              /\ parsed.rows[k].rating = ExpectedRating(blocks[k].rating_el)
              /\ parsed.rows[k].review_date = ExpectedDate(blocks[k].date_el)
              /\ parsed.rows[k].movie_id = <<"1">>
              /\ parsed.rows[k].review_text = ExpectedText(blocks[k].text_el)
              /\ parsed.rows[k].author =
                    (IF blocks[k].author_el = None THEN <<>> ELSE <<"o">>)

C10_Witness ==
    /\ parsed.done
    /\ Len(blocks) = 2
    /\ blocks[1].rating_el = <<"8", ",", "5">>
    /\ blocks[1].date_el = <<"3", "1", ".", "0", "2", ".", "2", "0", "2", "3">>
    /\ blocks[1].text_el # None
    /\ blocks[2].rating_el = None /\ blocks[2].date_el = None
    /\ Len(parsed.rows) = 2
    /\ parsed.rows[1].rating = <<>> /\ parsed.rows[1].review_text = <<"a">>

(***************************************************************************)
(* The collector: the listing-page loop (lines 114-123), then the          *)
(* collection loop over movie_urls calling scrape_reviews_for_movie        *)
(* (lines 143-208).  A movie URL is the number of the movie.               *)
(***************************************************************************)
MaxMovies == 2
MaxBlocks == 1

\* range(1, 6) of line 115
ListingPages == 5

\* the slice [:110] of line 122
UrlCap == 110

\* max_pages=3 of line 195
max_pages == 3

Movies == 1..MaxMovies

Unwritten == << "<unwritten>" >>

Chr(n) ==
    CASE n = 0 -> "0" [] n = 1 -> "1" [] n = 2 -> "2" [] n = 3 -> "3" [] n = 4 -> "4"
      [] n = 5 -> "5" [] n = 6 -> "6" [] n = 7 -> "7" [] n = 8 -> "8" [] n = 9 -> "9"

\* movie_url.rstrip("/").split("/")[-1]
MovieId(m) == <<Chr(m)>>

\* what get_movie_urls_from_page may return: no link or one /film/ link
ListingResults == { <<>> } \cup { <<m>> : m \in Movies }

\* list(dict.fromkeys(urls)): the first occurrence of every URL, in order
DedupUrls(urls) ==
    Pick(urls, { i \in 1..Len(urls) : \A j \in 1..(i - 1) : urls[j] # urls[i] })

\* urls[:n]
Take(urls, n) == SubSeq(urls, 1, IF n < Len(urls) THEN n ELSE Len(urls))

\* the k-th review block of page p of a movie, as the site serves it
SiteBlock(p, k) ==
    [text_el |-> <<Chr(p), Chr(k)>>, rating_el |-> <<Chr(k)>>,
     date_el |-> None, author_el |-> <<"o">>]

\* soup.find_all("div", class_="reviewItem") on a page p with n review blocks
SitePage(p, n) == [k \in 1..n |-> SiteBlock(p, k)]

InitCollect ==
    /\ kpc = "list_fetch"
    /\ lpage = 1
    /\ movie_urls = <<>>
    /\ midx = 0 /\ page_num = 0
    /\ reviews = <<>> /\ all_reviews = <<>>
    /\ csv = Unwritten
    /\ attempts = <<>> /\ served = <<>>
    /\ calls = <<>>
    /\ lastEvent = "none" /\ reqParity = 0
    /\ CleanIdle /\ TokIdle /\ ParseIdle

\* lines 116-118, 103: one listing page is requested; the request raises
\* (nothing catches it) or its links are appended
ListFetch ==
    /\ kpc = "list_fetch"
    /\ lastEvent' = "request" /\ reqParity' = 1 - reqParity
    /\ \/ /\ kpc' = "aborted"
          /\ UNCHANGED movie_urls
       \/ \E links \in ListingResults :
             /\ movie_urls' = movie_urls \o links
             /\ kpc' = "list_sleep"
    /\ UNCHANGED <<lpage, midx, page_num, reviews, all_reviews, csv, attempts, served,
                   calls>>
    /\ UNCHANGED <<cleanVars, tokVars, parseVars>>

\* line 119, then the next turn of the loop of line 115
ListSleep ==
    /\ kpc = "list_sleep"
    /\ lastEvent' = "sleep"
    /\ IF lpage < ListingPages
       THEN lpage' = lpage + 1 /\ kpc' = "list_fetch"
       ELSE lpage' = lpage /\ kpc' = "list_dedup"
    /\ UNCHANGED <<movie_urls, midx, page_num, reviews, all_reviews, csv, attempts,
                   served, calls, reqParity>>
    /\ UNCHANGED <<cleanVars, tokVars, parseVars>>

\* line 122, then all_reviews = [] and the start of the loop of line 193
DedupStep ==
    /\ kpc = "list_dedup"
    /\ movie_urls' = Take(DedupUrls(movie_urls), UrlCap)
    /\ all_reviews' = <<>>
    /\ midx' = 1
    /\ kpc' = "loop_next"
    /\ UNCHANGED <<lpage, page_num, reviews, csv, attempts, served, calls,
                   lastEvent, reqParity>>
    /\ UNCHANGED <<cleanVars, tokVars, parseVars>>

\* line 193: the next URL, if any, and the entry of scrape_reviews_for_movie
\* (lines 148-150); after the last URL the loop is left
LoopNext ==
    /\ kpc = "loop_next"
    /\ IF midx <= Len(movie_urls)
       THEN /\ attempts' = Append(attempts, movie_urls[midx])
            /\ reviews' = <<>>
            /\ page_num' = 1
            /\ served' = <<>>
            /\ kpc' = "page_fetch"
       ELSE /\ kpc' = "write_csv"
            /\ UNCHANGED <<attempts, reviews, page_num, served>>
    /\ UNCHANGED <<lpage, movie_urls, midx, all_reviews, csv, calls, lastEvent,
                   reqParity>>
    /\ UNCHANGED <<cleanVars, tokVars, parseVars>>

\* faulty variant: no test for an empty page, the loop goes on
AfterEmptyPageNoBreak == "page_sleep"

\* lines 157-158: where an empty page leads (break)
AfterEmptyPage == "scrape_return"

\* lines 151-187: the page page_num is requested; the request raises, or the
\* page has no review block (break), or every block of it is parsed
PageFetch ==
    /\ kpc = "page_fetch"
    /\ lastEvent' = "request" /\ reqParity' = 1 - reqParity
    /\ \/ /\ served' = Append(served, [page |-> page_num, ok |-> FALSE, nblocks |-> 0])
          /\ calls' = Append(calls, [outcome |-> "raised", revs |-> <<>>,
                                     pages |-> Append(served, [page |-> page_num,
                                                               ok |-> FALSE,
                                                               nblocks |-> 0])])
          /\ kpc' = "loop_except"
          /\ UNCHANGED reviews
       \/ \E n \in 0..MaxBlocks :
             LET r == BlockLoop(MovieId(movie_urls[midx]), SitePage(page_num, n), reviews)
             IN  /\ served' = Append(served, [page |-> page_num, ok |-> TRUE, nblocks |-> n])
                 /\ IF n = 0
                    THEN kpc' = AfterEmptyPage /\ UNCHANGED <<reviews, calls>>
                    ELSE IF r.exc
                    THEN /\ calls' = Append(calls, [outcome |-> "raised", revs |-> <<>>,
                                                    pages |-> Append(served,
                                                        [page |-> page_num, ok |-> TRUE,
                                                         nblocks |-> n])])
                         /\ kpc' = "loop_except"
                         /\ UNCHANGED reviews
                    ELSE /\ reviews' = r.rows
                         /\ kpc' = "page_sleep"
                         /\ UNCHANGED calls
    /\ UNCHANGED <<lpage, movie_urls, midx, page_num, all_reviews, csv, attempts>>
    /\ UNCHANGED <<cleanVars, tokVars, parseVars>>

\* line 188, then the next turn of the loop of line 150
PageSleep ==
    /\ kpc = "page_sleep"
    /\ lastEvent' = "sleep"
    /\ IF page_num < max_pages
       THEN page_num' = page_num + 1 /\ kpc' = "page_fetch"
       ELSE page_num' = page_num /\ kpc' = "scrape_return"
    /\ UNCHANGED <<lpage, movie_urls, midx, reviews, all_reviews, csv, attempts, served,
                   calls, reqParity>>
    /\ UNCHANGED <<cleanVars, tokVars, parseVars>>

\* line 189 and lines 195-196: return reviews; all_reviews.extend(revs)
ScrapeReturn ==
    /\ kpc = "scrape_return"
    /\ calls' = Append(calls, [outcome |-> "returned", revs |-> reviews,
                               pages |-> served])
    /\ all_reviews' = all_reviews \o reviews
    /\ kpc' = "movie_sleep"
    /\ UNCHANGED <<lpage, movie_urls, midx, page_num, reviews, csv, attempts, served,
                   lastEvent, reqParity>>
    /\ UNCHANGED <<cleanVars, tokVars, parseVars>>

\* faulty variant: no handler, the exception ends the cell
LoopExceptUncaught ==
    /\ kpc = "loop_except"
    /\ kpc' = "aborted"
    /\ UNCHANGED <<lpage, movie_urls, midx, page_num, reviews, all_reviews, csv,
                   attempts, served, calls, lastEvent, reqParity>>
    /\ UNCHANGED <<cleanVars, tokVars, parseVars>>

\* faulty variant: the rows parsed before the exception are kept
LoopExceptKeepPartial ==
    /\ kpc = "loop_except"
    /\ all_reviews' = all_reviews \o reviews
    /\ kpc' = "movie_sleep"
    /\ UNCHANGED <<lpage, movie_urls, midx, page_num, reviews, csv,
                   attempts, served, calls, lastEvent, reqParity>>
    /\ UNCHANGED <<cleanVars, tokVars, parseVars>>

\* lines 197-198: except Exception: print(...)
LoopExcept ==
    /\ kpc = "loop_except"
    /\ kpc' = "movie_sleep"
    /\ UNCHANGED <<lpage, movie_urls, midx, page_num, reviews, all_reviews, csv,
                   attempts, served, calls, lastEvent, reqParity>>
    /\ UNCHANGED <<cleanVars, tokVars, parseVars>>

\* faulty variant: line 201 left out
MovieSleepMissing == lastEvent

\* line 201: time.sleep(1) as the last event
MovieSleepEvent == "sleep"

\* lines 199-201, then the next turn of the loop of line 193
MovieSleep ==
    /\ kpc = "movie_sleep"
    /\ lastEvent' = MovieSleepEvent
    /\ midx' = midx + 1
    /\ kpc' = "loop_next"
    /\ UNCHANGED <<lpage, movie_urls, page_num, reviews, all_reviews, csv, attempts,
                   served, calls, reqParity>>
    /\ UNCHANGED <<cleanVars, tokVars, parseVars>>

\* lines 204-208: df_raw = pd.DataFrame(all_reviews); df_raw.to_csv(...)
WriteCsv ==
    /\ kpc = "write_csv"
    /\ csv' = all_reviews
    /\ kpc' = "done"
    /\ UNCHANGED <<lpage, movie_urls, midx, page_num, reviews, all_reviews, attempts,
                   served, calls, lastEvent, reqParity>>
    /\ UNCHANGED <<cleanVars, tokVars, parseVars>>

NextCollect ==
    \/ ListFetch \/ ListSleep \/ DedupStep
    \/ LoopNext \/ PageFetch \/ PageSleep \/ ScrapeReturn \/ LoopExcept \/ MovieSleep
    \/ WriteCsv

SpecCollect == InitCollect /\ [][NextCollect]_vars

\* the cells run to their end: a single thread that nothing suspends
FairCollect == SpecCollect /\ WF_vars(NextCollect)

(***************************************************************************)
(* Claims about the collector.                                             *)
(***************************************************************************)
InLoop ==
    kpc \in {"loop_next", "page_fetch", "page_sleep", "scrape_return", "loop_except",
             "movie_sleep"}

\* C6: whatever the per-movie scrapes do (return or raise), the collection
\* loop calls scrape_reviews_for_movie once for every URL of movie_urls, in
\* list order, an exception never ends the loop, and the loop ends by
\* writing the raw CSV.
C6_AttemptsSoFar ==
    /\ InLoop =>
          /\ Len(attempts) \in {midx - 1, midx}
          /\ Len(attempts) <= Len(movie_urls)
          /\ attempts = SubSeq(movie_urls, 1, Len(attempts))
    /\ kpc \in {"write_csv", "done"} => attempts = movie_urls
    /\ kpc = "done" => csv = all_reviews
    /\ kpc = "aborted" => attempts = <<>>
    /\ \A i, j \in 1..Len(attempts) : attempts[i] = attempts[j] => i = j

C6_FailureIsolation == []C6_AttemptsSoFar /\ (kpc = "loop_next" ~> kpc = "done")

C6_Witness ==
    /\ kpc = "done"
    /\ Len(attempts) = 2
    /\ calls[1].outcome = "raised"
    /\ calls[2].outcome = "returned" /\ calls[2].revs # <<>>
    /\ csv = calls[2].revs

\* the rows of the pages 1..n of movie m when page j holds served[j].nblocks blocks
RECURSIVE RowsOfPages(_, _)
RowsOfPages(m, n) ==
    IF n = 0 THEN <<>>
    ELSE RowsOfPages(m, n - 1) \o
         [k \in 1..served[n].nblocks |-> ParseBlock(MovieId(m), SiteBlock(n, k)).row]

CallFinished == Len(calls) = Len(attempts)

\* C8: within one call the pages requested are 1..k in increasing order,
\* k <= max_pages, each once; after a page without review blocks no further
\* page is requested and the call returns the reviews of the earlier pages.
C8_EarlyStop ==
    /\ Len(served) <= max_pages
    /\ \A i \in 1..Len(served) : served[i].page = i
    /\ \A i \in 1..Len(served) :
          (served[i].ok /\ served[i].nblocks = 0) =>
              /\ i = Len(served)
              /\ kpc \notin {"page_fetch", "page_sleep", "loop_except"}
              /\ (InLoop /\ CallFinished) =>
                    /\ calls[Len(calls)].outcome = "returned"
                    /\ calls[Len(calls)].revs =
                          RowsOfPages(attempts[Len(attempts)], i - 1)

C8_Witness ==
    /\ kpc = "movie_sleep"
    /\ Len(served) = 2
    /\ served[1].nblocks = 1
    /\ served[2].ok /\ served[2].nblocks = 0
    /\ Len(calls[Len(calls)].revs) = 1

\* C9: between any two consecutive HTTP requests there is at least one
\* sleep: a request is never issued while the last event is a request.
C9_Pacing == [][reqParity' # reqParity => lastEvent # "request"]_vars

C9_Witness ==
    /\ kpc = "loop_next"
    /\ Len(calls) = 2
    /\ calls[1].outcome = "raised"
    /\ calls[2].outcome = "returned" /\ calls[2].revs = <<>>
    /\ lastEvent = "sleep"

\* the row of block k of page p of movie m
ExpectedRow(m, p, k) ==
    [movie_id    |-> <<Chr(m)>>,
     review_text |-> <<Chr(p), Chr(k)>>,
     rating      |-> << [sign |-> 1, mant |-> k, scale |-> 0] >>,
     review_date |-> <<>>,
     author      |-> <<"o">>]

\* the rows of the pages ps[1..n] of movie m: page order, then block order
RECURSIVE RowsInPageOrder(_, _, _)
RowsInPageOrder(m, ps, n) ==
    IF n = 0 THEN <<>>
    ELSE RowsInPageOrder(m, ps, n - 1) \o
         [k \in 1..ps[n].nblocks |-> ExpectedRow(m, ps[n].page, k)]

\* the rows of the calls 1..n that returned, in the order of the calls
RECURSIVE RowsOfReturnedCalls(_)
RowsOfReturnedCalls(n) ==
    IF n = 0 THEN <<>>
    ELSE RowsOfReturnedCalls(n - 1) \o
         (IF calls[n].outcome = "returned"
          THEN RowsInPageOrder(attempts[n], calls[n].pages, Len(calls[n].pages))
          ELSE <<>>)

====
